---- MODULE Spec2Model ----
(***************************************************************************)
(* Industrial RAG assistant: the hybrid retrieval orchestrator             *)
(* (app/services/hybrid_retriever.py), the chat pipeline                   *)
(* (app/services/chat_engine.py) and the HTTP session layer (app/main.py). *)
(*                                                                         *)
(* Units: a similarity is an integer number of hundredths (0.92 -> 92), a  *)
(* confidence score an integer number of ten-thousandths (round(x, 4)).    *)
(* A Python dict is a function whose DOMAIN is the set of keys present.    *)
(***************************************************************************)
EXTENDS Integers, Sequences, FiniteSets, TLC

VARIABLES
    ENABLE_WEB_SEARCH,  \* hybrid_retriever.py module flag, read from the environment
    ddg_installed,      \* whether `from duckduckgo_search import DDGS` succeeds
    max_searches,       \* HybridRetriever.max_searches of the long-lived instance
    search_count,       \* HybridRetriever.search_count of the long-lived instance
    ddg,                \* HybridRetriever._ddg of the long-lived instance
    chat_sessions,      \* main.py chat_sessions: session id -> [history |-> seq]
    exchanges,          \* ghost: every exchange answered for a session since it was created
    web_calls,          \* ghost: web searches performed for a session since its last reset
    deleted,            \* ghost: the session ids deleted and not created again since
    threads,            \* the retrieve call each thread is in: its position and locals
    resets,             \* ghost: the sessions reset and not charged since
    last                \* ghost: the last operation, its inputs and what it returned

vars == <<ENABLE_WEB_SEARCH, ddg_installed, max_searches, search_count, ddg,
          chat_sessions, exchanges, web_calls, deleted, threads, resets, last>>

----------------------------------------------------------------------------
(* Bounds of the model *)

MaxRows == 2
MaxWebResults == 4
MaxSearchesBound == 3
MaxChatCalls == 7
MaxLog == 11

(* Program constants *)

DefaultMaxSearches == 5
MinConfidenceThreshold == 5000
WebMergeLimit == 3
HistoryLimit == 10
DefaultSimilarityHybrid == 50
DefaultSimilarityChat == 0
MaxQuestionLength == 1000

Sessions == {"s1", "default"}
Similarities == {30, 50, 92}

----------------------------------------------------------------------------
(* Python helpers *)

Min(a, b) == IF a < b THEN a ELSE b
Max(a, b) == IF a > b THEN a ELSE b

\* dict.get(key, default)
Get(d, key, default) == IF key \in DOMAIN d THEN d[key] ELSE default

\* dict.update(other): the keys of other win
Update(d, other) ==
    [key \in DOMAIN d \cup DOMAIN other |->
        IF key \in DOMAIN other THEN other[key] ELSE d[key]]

\* d[key] = value
Put(d, key, value) ==
    [x \in DOMAIN d \cup {key} |-> IF x = key THEN value ELSE d[x]]

\* del d[key]
Del(d, key) == [x \in DOMAIN d \ {key} |-> d[x]]

\* seq[-n:]
LastN(seq, n) ==
    IF Len(seq) <= n THEN seq ELSE SubSeq(seq, Len(seq) - n + 1, Len(seq))

\* seq[:n]
FirstN(seq, n) == SubSeq(seq, 1, Min(n, Len(seq)))

SeqsUpTo(S, n) == UNION {[1..m -> S] : m \in 0..n}

\* round(num/den) to the nearest integer, ties to even, for num >= 0, den > 0
RoundHalfEven(num, den) ==
    LET q == num \div den
        r == num % den
    IN  IF 2 * r < den THEN q
        ELSE IF 2 * r > den THEN q + 1
        ELSE IF q % 2 = 0 THEN q ELSE q + 1

RECURSIVE Factorial(_)
Factorial(n) == IF n <= 1 THEN 1 ELSE n * Factorial(n - 1)

RECURSIVE SumTo(_, _)
SumTo(f, n) == IF n = 0 THEN 0 ELSE f[n] + SumTo(f, n - 1)

----------------------------------------------------------------------------
(* The confidence scorers *)

\* The weighted average of the similarities, weight 1/(i+1) at 0-based
\* position i, rounded to 4 decimals; `default` stands for a missing
\* similarity.  n!/i keeps the weights integral.
WeightedConfidence(docs, default) ==
    IF Len(docs) = 0 THEN 0
    ELSE
        LET n == Len(docs)
            F == Factorial(n)
            weights == [i \in 1..n |-> F \div i]
            similarities == [i \in 1..n |-> Get(docs[i], "similarity", default)]
            weighted_sum == SumTo([i \in 1..n |-> similarities[i] * weights[i]], n)
            total_weight == SumTo(weights, n)
        IN  IF total_weight > 0
            THEN RoundHalfEven(100 * weighted_sum, total_weight)
            ELSE 0

\* A scorer whose weights grow with the position: weight 1/(n-i) at 0-based
\* position i
_calculate_confidence_backweighted(docs) ==
    IF Len(docs) = 0 THEN 0
    ELSE
        LET n == Len(docs)
            F == Factorial(n)
            weights == [i \in 1..n |-> F \div (n - i + 1)]
            similarities == [i \in 1..n |->
                                Get(docs[i], "similarity", DefaultSimilarityHybrid)]
            weighted_sum == SumTo([i \in 1..n |-> similarities[i] * weights[i]], n)
        IN  RoundHalfEven(100 * weighted_sum, SumTo(weights, n))

\* A scorer that divides the weighted sum by the first weight only
calculate_confidence_score_unnormalised(retrieved_docs) ==
    IF Len(retrieved_docs) = 0 THEN 0
    ELSE
        LET n == Len(retrieved_docs)
            F == Factorial(n)
            weights == [i \in 1..n |-> F \div i]
            similarities == [i \in 1..n |->
                                Get(retrieved_docs[i], "similarity", DefaultSimilarityChat)]
            weighted_sum == SumTo([i \in 1..n |-> similarities[i] * weights[i]], n)
        IN  RoundHalfEven(100 * weighted_sum, weights[1])

\* HybridRetriever._calculate_confidence
_calculate_confidence(docs) == WeightedConfidence(docs, DefaultSimilarityHybrid)

\* chat_engine.calculate_confidence_score
calculate_confidence_score(retrieved_docs) ==
    WeightedConfidence(retrieved_docs, DefaultSimilarityChat)

----------------------------------------------------------------------------
(* The source formatters *)

\* Python's None as a metadata value; no page number is negative
PyNone == -1

\* The two literals _format_sources puts in front of a citation (the bytes of
\* a globe and of a page emoji, each followed by a space)
WebSourceMarker == "[web] "
LocalSourceMarker == "[doc] "

UrlDisplayLimit == 50

\* str(page) inside an f-string
Str(page) == ToString(page)

\* A loop that appends every citation, seen or not
RECURSIVE CollectAll(_, _)
CollectAll(source_strs, n) ==
    IF n = 0 THEN <<>> ELSE Append(CollectAll(source_strs, n - 1), source_strs[n])

\* The loop over the documents with its `seen` set, after n documents: a
\* citation is appended unless an equal one was appended before
RECURSIVE CollectUnseen(_, _)
CollectUnseen(source_strs, n) ==
    IF n = 0 THEN <<>>
    ELSE LET sources == CollectUnseen(source_strs, n - 1)
             seen == {sources[j] : j \in 1..Len(sources)}
         IN  IF source_strs[n] \notin seen
             THEN Append(sources, source_strs[n])
             ELSE sources

\* A page lookup that reads the page key only
PageKeyOnly(metadata) == Get(metadata, "page", PyNone)

\* metadata.get("page", metadata.get("page_number"))
PageOf(metadata) == Get(metadata, "page", Get(metadata, "page_number", PyNone))

\* chat_engine.format_sources, lines 171-177: the citation of one document
source_str(metadata) ==
    LET source == Get(metadata, "source", "Unknown")
        page == PageOf(metadata)
    IN  IF page # PyNone
        THEN source \o " - Page " \o Str(page)
        ELSE source

\* chat_engine.format_sources
format_sources(retrieved_docs) ==
    CollectUnseen([i \in 1..Len(retrieved_docs) |-> source_str(retrieved_docs[i])],
                  Len(retrieved_docs))

\* HybridRetriever._format_sources, lines 224-237: the citation of one document
_source_str(metadata) ==
    IF Get(metadata, "source", "None") = "web"
    THEN LET title == Get(metadata, "title", "Web Source")
             url == Get(metadata, "url", "")
         IN  WebSourceMarker \o title \o
             (IF url = "" THEN ""
              ELSE IF Len(url) > UrlDisplayLimit
              THEN " (" \o SubSeq(url, 1, UrlDisplayLimit) \o "...)"
              ELSE " (" \o url \o ")")
    ELSE LET source == Get(metadata, "source", "Unknown")
             page == PageOf(metadata)
         IN  LocalSourceMarker \o source \o
             (IF page # PyNone THEN " - Page " \o Str(page) ELSE "")

\* HybridRetriever._format_sources
_format_sources(docs) ==
    CollectUnseen([i \in 1..Len(docs) |-> _source_str(docs[i])], Len(docs))

----------------------------------------------------------------------------
(* The environment of one request: what the external providers answer *)

\* A row of the vector store: {id, similarity, metadata}
RowOf(sim) ==
    [id |-> "d", similarity |-> sim, metadata |-> [source |-> "doc.pdf", page |-> 1]]

\* The store answers its rows by descending similarity
Descending(sims) == \A i \in 1..(Len(sims) - 1) : sims[i] >= sims[i + 1]

RowSeqs ==
    {[i \in DOMAIN sims |-> RowOf(sims[i])] :
        sims \in {x \in SeqsUpTo(Similarities, MaxRows) : Descending(x)}}

\* embed_query raises | rpc(...).execute() raises | the rows the store holds
LocalOutcomes ==
    {[embed_ok |-> FALSE, rpc_ok |-> TRUE, rows |-> <<>>],
     [embed_ok |-> TRUE, rpc_ok |-> FALSE, rows |-> <<>>]}
    \cup {[embed_ok |-> TRUE, rpc_ok |-> TRUE, rows |-> rows] : rows \in RowSeqs}

WebResult == [title |-> "T", href |-> "U", body |-> "B"]

\* ddg.text raises | the results it yields
WebOutcomes ==
    {[ok |-> FALSE, results |-> <<>>]}
    \cup {[ok |-> TRUE, results |-> [i \in 1..n |-> WebResult]] : n \in 0..MaxWebResults}

\* document_chain.invoke raises | returns the answer text
LlmOutcomes == {"ok", "fail"}

\* The web provider is not called
NoWebCall == [ok |-> TRUE, results |-> <<>>]

----------------------------------------------------------------------------
(* SupabaseRPCRetriever *)

LocalRetrieverK == 5

\* The store answers at most match_count rows
VectorStoreRpc(rows, match_count) == FirstN(rows, match_count)

\* One row as a Document's metadata (lines 106-121); idx is 0-based
RowToDocument(row, idx) ==
    LET similarity == Get(row, "similarity", 0)
        metadata == [id |-> Get(row, "id", "None"), similarity |-> similarity, rank |-> idx + 1]
    IN  IF "metadata" \in DOMAIN row
        THEN Update(metadata, row["metadata"])
        ELSE metadata

\* SupabaseRPCRetriever._get_relevant_documents: [exc, docs]
_get_relevant_documents(self_k, local) ==
    IF ~local.embed_ok
    THEN [exc |-> "EmbeddingException", docs |-> <<>>]
    ELSE IF ~local.rpc_ok
    THEN [exc |-> "RetrievalException", docs |-> <<>>]
    ELSE LET rows == VectorStoreRpc(local.rows, self_k)
         IN  [exc |-> "none",
              docs |-> [i \in 1..Len(rows) |-> RowToDocument(rows[i], i - 1)]]

----------------------------------------------------------------------------
(* HybridRetriever *)

\* The ddg property: load the client on first use, False when the import fails
ddg_property(_ddg, installed) ==
    IF _ddg = "None" THEN (IF installed THEN "DDGS" ELSE "False") ELSE _ddg

\* A _search_local whose handler lets the local retriever's exception through
_search_local_propagating(self_k, local) == _get_relevant_documents(self_k, local)

\* HybridRetriever._search_local: [exc, docs]; `except Exception` turns every
\* exception of the local retriever into an empty list
_search_local(self_k, local) ==
    LET r == _get_relevant_documents(self_k, local)
    IN  IF r.exc = "none"
        THEN [exc |-> "none", docs |-> r.docs]
        ELSE [exc |-> "none", docs |-> <<>>]

\* A web search whose synthetic similarities start at 0.40
_search_web_low_similarity(web) ==
    IF ~web.ok THEN <<>>
    ELSE [i \in 1..Len(web.results) |->
            [source |-> "web",
             url |-> Get(web.results[i], "href", ""),
             title |-> Get(web.results[i], "title", ""),
             similarity |-> 40 - (i - 1) * 5,
             rank |-> i]]

\* HybridRetriever._search_web, once self.ddg is truthy
_search_web(web) ==
    IF ~web.ok THEN <<>>
    ELSE [i \in 1..Len(web.results) |->
            [source |-> "web",
             url |-> Get(web.results[i], "href", ""),
             title |-> Get(web.results[i], "title", ""),
             similarity |-> 60 - (i - 1) * 5,
             rank |-> i]]

\* A merge that appends every web document
_merge_documents_uncapped(local_docs, web_docs) == local_docs \o web_docs

\* A merge that puts the web documents first
_merge_documents_web_first(local_docs, web_docs) ==
    FirstN(web_docs, WebMergeLimit) \o local_docs

\* HybridRetriever._merge_documents
_merge_documents(local_docs, web_docs) ==
    local_docs \o FirstN(web_docs, WebMergeLimit)

\* A budget check that is off by one
_can_search_web_inclusive(count, maxs, session_id) == Get(count, session_id, 0) <= maxs

\* HybridRetriever._can_search_web
_can_search_web(count, maxs, session_id) == Get(count, session_id, 0) < maxs

\* An increment that charges every session the instance knows
_increment_every_session(count, session_id) ==
    [s \in DOMAIN count \cup {session_id} |-> Get(count, s, 0) + 1]

\* HybridRetriever._increment_search_count
_increment_search_count(count, session_id) ==
    Put(count, session_id, Get(count, session_id, 0) + 1)

\* A remaining count without the clamp at zero
_get_remaining_searches_unclamped(count, maxs, session_id) ==
    maxs - Get(count, session_id, 0)

\* HybridRetriever._get_remaining_searches
_get_remaining_searches(count, maxs, session_id) ==
    Max(0, maxs - Get(count, session_id, 0))

\* HybridRetriever.reset_session
reset_session(count, session_id) ==
    IF session_id \in DOMAIN count THEN Del(count, session_id) ELSE count

\* A web decision that also fires at the threshold itself
should_search_web_at_threshold(enabled, ddg1, count, maxs, session_id, local_confidence, local_docs) ==
    /\ enabled
    /\ ddg1 = "DDGS"
    /\ _can_search_web(count, maxs, session_id)
    /\ (local_confidence <= MinConfidenceThreshold \/ Len(local_docs) = 0)

\* The web decision of retrieve (lines 95-100); `and` stops at the first
\* falsy operand, so the client is loaded only when the flag is on
should_search_web(enabled, ddg1, count, maxs, session_id, local_confidence, local_docs) ==
    /\ enabled
    /\ ddg1 = "DDGS"
    /\ _can_search_web(count, maxs, session_id)
    /\ (local_confidence < MinConfidenceThreshold \/ Len(local_docs) = 0)

\* A search that reports itself used and is not charged to the session
search_without_charge(count, session_id, web) ==
    [web_docs |-> _search_web(web), search_count |-> count, web_search_used |-> TRUE]

\* What retrieve does once it has decided to search (lines 102-106):
\* [web_docs, search_count, web_search_used]
search_and_charge(count, session_id, web) ==
    [web_docs |-> _search_web(web),
     search_count |-> _increment_search_count(count, session_id),
     web_search_used |-> TRUE]

\* Lines 87-100 of retrieve: the local search, its confidence and the web
\* decision, on an instance whose fields are (count, _ddg, maxs)
retrieve_decision(count, _ddg, maxs, enabled, installed, self_k, session_id, local) ==
    LET searched_local == _search_local(self_k, local)
        local_docs == searched_local.docs
        local_confidence == _calculate_confidence(local_docs)
        ddg1 == IF enabled THEN ddg_property(_ddg, installed) ELSE _ddg
    IN  IF searched_local.exc # "none"
        THEN [exc |-> searched_local.exc, local_docs |-> <<>>, local_confidence |-> 0,
              ddg |-> _ddg, should_search_web |-> FALSE]
        ELSE [exc |-> "none",
              local_docs |-> local_docs,
              local_confidence |-> local_confidence,
              ddg |-> ddg1,
              should_search_web |->
                  should_search_web(enabled, ddg1, count, maxs, session_id,
                                    local_confidence, local_docs)]

\* Lines 102-123 of retrieve: the result with the instance's search_count
\* afterwards; `web` is what the provider answers when it is called
retrieve_result(count, maxs, session_id, decision, web) ==
    LET searched == IF decision.should_search_web
                    THEN search_and_charge(count, session_id, web)
                    ELSE [web_docs |-> <<>>, search_count |-> count,
                          web_search_used |-> FALSE]
        all_docs == _merge_documents(decision.local_docs, searched.web_docs)
    IN  IF decision.exc # "none"
        THEN [exc |-> decision.exc, documents |-> <<>>, confidence_score |-> 0,
              sources |-> <<>>,
              web_search_used |-> FALSE, web_searches_remaining |-> 0,
              search_count |-> count]
        ELSE [exc |-> "none",
              documents |-> all_docs,
              confidence_score |-> _calculate_confidence(all_docs),
              sources |-> _format_sources(all_docs),
              web_search_used |-> searched.web_search_used,
              web_searches_remaining |->
                  _get_remaining_searches(searched.search_count, maxs, session_id),
              search_count |-> searched.search_count]

\* The provider answers the web search only when retrieve calls it
WebAnswers(decision) ==
    IF decision.should_search_web THEN WebOutcomes ELSE {NoWebCall}

----------------------------------------------------------------------------
(* Specification of one long-lived HybridRetriever instance *)

NoSessions == [s \in {} |-> 0]
NoOp == [op |-> "none"]

Threads == {"t1", "t2"}

\* A thread that is in no call
NoCallInProgress ==
    [pc |-> "idle", session_id |-> "None", count_checked |-> 0, count_read |-> 0,
     web_search_used |-> FALSE, web_searches_remaining |-> 0, count_at_return |-> 0,
     after_reset |-> FALSE]

NoThreads == [t \in Threads |-> NoCallInProgress]

\* No thread calls the long-lived instance
NoCallers == [t \in {} |-> NoCallInProgress]

\* No call is in progress: the caller has taken the previous result
Idle == last.op = "none"

\* The caller takes the result of the call; the next call may start
Return ==
    /\ ~Idle
    /\ last' = NoOp
    /\ UNCHANGED <<threads, resets, ENABLE_WEB_SEARCH, ddg_installed, max_searches, search_count, ddg,
                   chat_sessions, exchanges, web_calls, deleted>>

InitRetriever ==
    /\ ENABLE_WEB_SEARCH \in BOOLEAN
    /\ ddg_installed \in BOOLEAN
    /\ max_searches \in 0..MaxSearchesBound
    /\ search_count = NoSessions
    /\ ddg = "None"
    /\ chat_sessions = NoSessions
    /\ exchanges = NoSessions
    /\ web_calls = [s \in Sessions |-> 0]
    /\ deleted = {}
    /\ threads = NoCallers
    /\ resets = {}
    /\ last = NoOp

\* hybrid_retriever.retrieve(query, session_id, k)
Retrieve(session_id, k, local) ==
    /\ Idle
    /\ LET d == retrieve_decision(search_count, ddg, max_searches, ENABLE_WEB_SEARCH,
                                  ddg_installed, LocalRetrieverK, session_id, local)
       IN  \E web \in WebAnswers(d) :
            LET r == retrieve_result(search_count, max_searches, session_id, d, web)
            IN  /\ search_count' = r.search_count
                /\ ddg' = d.ddg
                /\ web_calls' = [web_calls EXCEPT ![session_id] =
                                     IF d.should_search_web THEN @ + 1 ELSE @]
                /\ last' = [op |-> "retrieve", session_id |-> session_id, k |-> k,
                            local |-> local, web |-> web,
                            count_before |-> Get(search_count, session_id, 0),
                            web_calls_before |-> web_calls[session_id],
                            local_confidence |-> d.local_confidence,
                            n_local |-> Len(d.local_docs),
                            should_search_web |-> d.should_search_web,
                            result |-> r]
                /\ UNCHANGED <<threads, resets, ENABLE_WEB_SEARCH, ddg_installed, max_searches,
                               chat_sessions, exchanges, deleted>>

\* hybrid_retriever.reset_session(session_id)
ResetSession(session_id) ==
    /\ Idle
    /\ search_count' = reset_session(search_count, session_id)
    /\ web_calls' = [web_calls EXCEPT ![session_id] = 0]
    /\ last' = [op |-> "reset_session", session_id |-> session_id]
    /\ UNCHANGED <<threads, resets, ENABLE_WEB_SEARCH, ddg_installed, max_searches, ddg,
                   chat_sessions, exchanges, deleted>>

RequestedK == {1, 5}

NextRetriever ==
    \/ \E s \in Sessions, k \in RequestedK, local \in LocalOutcomes : Retrieve(s, k, local)
    \/ \E s \in Sessions : ResetSession(s)
    \/ Return

SpecRetriever == InitRetriever /\ [][NextRetriever]_vars

----------------------------------------------------------------------------
(* Specification of one HybridRetriever called from two threads.  No lock
   guards search_count, so the steps of the calls interleave: the budget
   check, the web search, and the read and the store of
   `self.search_count[session_id] = self.search_count.get(session_id, 0) + 1` *)

MaxConcurrentBudget == 2

\* What the local retriever answers to a concurrent call: nothing, or one
\* strong match
ConcurrentLocalOutcomes ==
    {[embed_ok |-> TRUE, rpc_ok |-> TRUE, rows |-> <<>>],
     [embed_ok |-> TRUE, rpc_ok |-> TRUE, rows |-> <<RowOf(92)>>]}

\* A store that charges two searches
store_count_twice(count, session_id, count_read) == Put(count, session_id, count_read + 2)

\* Line 257, the assignment: self.search_count[session_id] = <value read> + 1
store_count(count, session_id, count_read) == Put(count, session_id, count_read + 1)

InitConcurrent ==
    /\ ENABLE_WEB_SEARCH = TRUE
    /\ ddg_installed = TRUE
    /\ max_searches \in 1..MaxConcurrentBudget
    /\ search_count = NoSessions
    /\ ddg = "None"
    /\ chat_sessions = NoSessions
    /\ exchanges = NoSessions
    /\ web_calls = [s \in Sessions |-> 0]
    /\ deleted = {}
    /\ threads = NoThreads
    /\ resets = {}
    /\ last = NoOp

\* Lines 87-100: thread t enters retrieve, searches locally and takes the
\* web decision against the counter as it is now
CallRetrieve(t, session_id, local) ==
    /\ threads[t].pc \in {"idle", "returned"}
    /\ LET d == retrieve_decision(search_count, ddg, max_searches, ENABLE_WEB_SEARCH,
                                  ddg_installed, LocalRetrieverK, session_id, local)
       IN  /\ threads' = [threads EXCEPT ![t] =
                  [NoCallInProgress EXCEPT
                      !.pc = IF d.should_search_web THEN "searching" ELSE "returning",
                      !.session_id = session_id,
                      !.count_checked = Get(search_count, session_id, 0)]]
           /\ ddg' = d.ddg
    /\ UNCHANGED <<ENABLE_WEB_SEARCH, ddg_installed, max_searches, search_count,
                   chat_sessions, exchanges, web_calls, deleted, resets, last>>

\* Line 103: the web search, while other threads run
SearchWeb(t) ==
    /\ threads[t].pc = "searching"
    /\ threads' = [threads EXCEPT ![t].pc = "incrementing"]
    /\ UNCHANGED <<ENABLE_WEB_SEARCH, ddg_installed, max_searches, search_count, ddg,
                   chat_sessions, exchanges, web_calls, deleted, resets, last>>

\* Line 257, the right-hand side: self.search_count.get(session_id, 0)
ReadCount(t) ==
    /\ threads[t].pc = "incrementing"
    /\ threads' = [threads EXCEPT
                      ![t].pc = "storing",
                      ![t].count_read = Get(search_count, threads[t].session_id, 0)]
    /\ UNCHANGED <<ENABLE_WEB_SEARCH, ddg_installed, max_searches, search_count, ddg,
                   chat_sessions, exchanges, web_calls, deleted, resets, last>>

\* Line 257, the assignment, and lines 105-106: web_search_used = True
StoreCount(t) ==
    /\ threads[t].pc = "storing"
    /\ search_count' = store_count(search_count, threads[t].session_id, threads[t].count_read)
    /\ resets' = resets \ {threads[t].session_id}
    /\ threads' = [threads EXCEPT ![t].pc = "returning", ![t].web_search_used = TRUE]
    /\ UNCHANGED <<ENABLE_WEB_SEARCH, ddg_installed, max_searches, ddg,
                   chat_sessions, exchanges, web_calls, deleted, last>>

\* Lines 117-123: the result is built and returned
ReturnResult(t) ==
    /\ threads[t].pc = "returning"
    /\ threads' = [threads EXCEPT
          ![t].pc = "returned",
          ![t].web_searches_remaining =
              _get_remaining_searches(search_count, max_searches, threads[t].session_id),
          ![t].count_at_return = Get(search_count, threads[t].session_id, 0),
          ![t].after_reset = threads[t].session_id \in resets]
    /\ UNCHANGED <<ENABLE_WEB_SEARCH, ddg_installed, max_searches, search_count, ddg,
                   chat_sessions, exchanges, web_calls, deleted, resets, last>>

\* reset_session(session_id), called while no retrieve call for the session
\* is in progress (the calls of other sessions may be under way)
ResetSessionNow(session_id) ==
    /\ session_id \notin resets
    /\ \A t \in Threads :
          threads[t].session_id = session_id => threads[t].pc \in {"idle", "returned"}
    /\ search_count' = reset_session(search_count, session_id)
    /\ resets' = resets \cup {session_id}
    /\ UNCHANGED <<ENABLE_WEB_SEARCH, ddg_installed, max_searches, ddg,
                   chat_sessions, exchanges, web_calls, deleted, threads, last>>

NextConcurrent ==
    \/ \E t \in Threads, s \in Sessions, local \in ConcurrentLocalOutcomes :
          CallRetrieve(t, s, local)
    \/ \E t \in Threads : SearchWeb(t)
    \/ \E t \in Threads : ReadCount(t)
    \/ \E t \in Threads : StoreCount(t)
    \/ \E t \in Threads : ReturnResult(t)
    \/ \E s \in Sessions : ResetSessionNow(s)

SpecConcurrent == InitConcurrent /\ [][NextConcurrent]_vars

----------------------------------------------------------------------------
(* chat_engine.get_chat_response *)

CannedAnswer == "couldn't find relevant information"
GeneratedAnswer == "generated"

\* Lines 231-245: a HybridRetriever is constructed for this call, with an
\* empty search_count, no client loaded and max_searches_per_session=5
new_hybrid_retriever ==
    [search_count |-> NoSessions, ddg |-> "None", max_searches |-> DefaultMaxSearches]

\* The web decision of the call's retriever; without hybrid retrieval the
\* web provider is never called
chat_decision(enabled, installed, session_id, use_hybrid_retrieval, local) ==
    LET hr == new_hybrid_retriever
    IN  IF use_hybrid_retrieval
        THEN retrieve_decision(hr.search_count, hr.ddg, hr.max_searches, enabled,
                               installed, LocalRetrieverK, session_id, local)
        ELSE [exc |-> "none", local_docs |-> <<>>, local_confidence |-> 0,
              ddg |-> hr.ddg, should_search_web |-> FALSE]

\* Lines 227-258: the retrieval step of get_chat_response
chat_retrieval(session_id, use_hybrid_retrieval, decision, local, web) ==
    LET hr == new_hybrid_retriever
    IN  IF use_hybrid_retrieval
        THEN LET r == retrieve_result(hr.search_count, hr.max_searches,
                                      session_id, decision, web)
             IN  [exc |-> r.exc,
                  retrieved_docs |-> r.documents,
                  confidence |-> r.confidence_score,
                  sources |-> r.sources,
                  web_search_used |-> r.web_search_used,
                  web_searches_remaining |-> r.web_searches_remaining]
        ELSE LET r == _get_relevant_documents(LocalRetrieverK, local)
             IN  [exc |-> r.exc,
                  retrieved_docs |-> r.docs,
                  confidence |-> calculate_confidence_score(r.docs),
                  sources |-> format_sources(r.docs),
                  web_search_used |-> FALSE,
                  web_searches_remaining |-> DefaultMaxSearches]

\* get_chat_response raises; llm_invoked tells whether document_chain.invoke
\* was called
Raised(exc, llm_invoked) ==
    [exc |-> exc, answer |-> "", sources |-> <<>>, confidence_score |-> 0,
     retrieved_chunks |-> 0, web_search_used |-> FALSE, web_searches_remaining |-> 0,
     llm_invoked |-> llm_invoked]

\* The answer composer is called only when documents were retrieved
LlmAnswers(retrieval) ==
    IF retrieval.exc = "none" /\ Len(retrieval.retrieved_docs) > 0
    THEN LlmOutcomes ELSE {"ok"}

\* A composer step whose failure yields an answerless result instead of an
\* exception
generate_swallowing_failure(retrieval, llm) ==
    [exc |-> "none",
     answer |-> IF llm = "ok" THEN GeneratedAnswer ELSE "",
     sources |-> retrieval.sources,
     confidence_score |-> retrieval.confidence,
     retrieved_chunks |-> Len(retrieval.retrieved_docs),
     web_search_used |-> retrieval.web_search_used,
     web_searches_remaining |-> retrieval.web_searches_remaining,
     llm_invoked |-> TRUE]

\* Lines 271-323: the prompt is built and the answer composer invoked
generate(retrieval, llm) ==
    IF llm # "ok"
    THEN Raised("LLMException", TRUE)
    ELSE [exc |-> "none",
          answer |-> GeneratedAnswer,
          sources |-> retrieval.sources,
          confidence_score |-> retrieval.confidence,
          retrieved_chunks |-> Len(retrieval.retrieved_docs),
          web_search_used |-> retrieval.web_search_used,
          web_searches_remaining |-> retrieval.web_searches_remaining,
          llm_invoked |-> TRUE]

\* A get_chat_response without the early return for an empty document list
chat_result_always_generating(retrieval, llm) ==
    IF retrieval.exc \in {"EmbeddingException", "RetrievalException"}
    THEN Raised(retrieval.exc, FALSE)
    ELSE IF retrieval.exc # "none"
    THEN Raised("LLMException", FALSE)
    ELSE generate(retrieval, llm)

\* Lines 260-330: the result of get_chat_response, or the exception it raises
chat_result(retrieval, llm) ==
    IF retrieval.exc \in {"EmbeddingException", "RetrievalException"}
    THEN Raised(retrieval.exc, FALSE)
    ELSE IF retrieval.exc # "none"
    THEN Raised("LLMException", FALSE)
    ELSE IF Len(retrieval.retrieved_docs) = 0
    THEN [exc |-> "none",
          answer |-> CannedAnswer,
          sources |-> <<>>,
          confidence_score |-> 0,
          retrieved_chunks |-> 0,
          web_search_used |-> FALSE,
          web_searches_remaining |-> retrieval.web_searches_remaining,
          llm_invoked |-> FALSE]
    ELSE generate(retrieval, llm)

\* get_chat_response(question, session_id, chat_history, use_hybrid_retrieval)
GetChatResponse(session_id, use_hybrid_retrieval, local) ==
    /\ Idle
    /\ web_calls[session_id] < MaxChatCalls
    /\ LET d == chat_decision(ENABLE_WEB_SEARCH, ddg_installed, session_id,
                              use_hybrid_retrieval, local)
       IN  \E web \in WebAnswers(d) :
            LET retrieval == chat_retrieval(session_id, use_hybrid_retrieval, d, local, web)
            IN  \E llm \in LlmAnswers(retrieval) :
                    /\ web_calls' = [web_calls EXCEPT ![session_id] =
                                         IF d.should_search_web THEN @ + 1 ELSE @]
                    /\ last' = [op |-> "get_chat_response",
                                session_id |-> session_id,
                                use_hybrid_retrieval |-> use_hybrid_retrieval,
                                local |-> local, web |-> web, llm |-> llm,
                                searched_web |-> d.should_search_web,
                                web_calls_before |-> web_calls[session_id],
                                retrieval_exc |-> retrieval.exc,
                                n_docs |-> Len(retrieval.retrieved_docs),
                                result |-> chat_result(retrieval, llm)]
                    /\ UNCHANGED <<threads, resets, ENABLE_WEB_SEARCH, ddg_installed, max_searches,
                                   search_count, ddg, chat_sessions, exchanges, deleted>>

InitChat ==
    /\ ENABLE_WEB_SEARCH \in BOOLEAN
    /\ ddg_installed \in BOOLEAN
    /\ max_searches = DefaultMaxSearches
    /\ search_count = NoSessions
    /\ ddg = "None"
    /\ chat_sessions = NoSessions
    /\ exchanges = NoSessions
    /\ web_calls = [s \in Sessions |-> 0]
    /\ deleted = {}
    /\ threads = NoCallers
    /\ resets = {}
    /\ last = NoOp

NextChat ==
    \/ \E s \in Sessions, hybrid \in BOOLEAN, local \in LocalOutcomes :
          GetChatResponse(s, hybrid, local)
    \/ Return

SpecChat == InitChat /\ [][NextChat]_vars

----------------------------------------------------------------------------
(* main.py: the HTTP layer and its session store *)

\* A question: its length and its length once stripped of whitespace
Questions ==
    {[id |-> "empty", len |-> 0, stripped |-> 0],
     [id |-> "blank", len |-> 3, stripped |-> 0],
     [id |-> "q", len |-> 12, stripped |-> 12],
     [id |-> "long", len |-> MaxQuestionLength + 1, stripped |-> MaxQuestionLength + 1]}

\* ChatRequest.session_id is optional
RequestSessionIds == {"s1", "None"}

\* schema.ChatRequest: question has min_length=1, max_length=1000
ChatRequestAccepts(question) ==
    question.len >= 1 /\ question.len <= MaxQuestionLength

\* What the providers answer to the requests of the HTTP layer.  A failing
\* embedding or store call is absorbed by _search_local and answers as a
\* store without rows does, so the rows stand for it here.
ApiLocalOutcomes ==
    {l \in LocalOutcomes :
        /\ l.embed_ok /\ l.rpc_ok
        /\ Len(l.rows) <= 1
        /\ \A i \in DOMAIN l.rows : l.rows[i].similarity # 50}

ApiWebAnswers(decision) == {w \in WebAnswers(decision) : Len(w.results) <= 1}

\* The exchanges a session may log in the model
MaxLogOf(session_id) == IF session_id = "s1" THEN MaxLog ELSE 1

\* A trim that keeps the oldest exchanges
trim_history_oldest(history) ==
    IF Len(history) > HistoryLimit THEN FirstN(history, HistoryLimit) ELSE history

\* Lines 137-139: keep only the last 10 exchanges
trim_history(history) ==
    IF Len(history) > HistoryLimit THEN LastN(history, HistoryLimit) ELSE history

\* Lines 132-139: store the exchange in the session's history
store_exchange(sessions, session_id, question, answer) ==
    LET appended == Append(sessions[session_id].history,
                           [question |-> question, answer |-> answer])
    IN  Put(sessions, session_id, [history |-> trim_history(appended)])

\* Lines 118-121: get or create the session
get_or_create_session(sessions, session_id) ==
    IF session_id \notin DOMAIN sessions
    THEN Put(sessions, session_id, [history |-> <<>>])
    ELSE sessions

\* Lines 143-148: the ChatResponse; the fields the handler does not pass
\* take the defaults of schema.ChatResponse
chat_response(response) ==
    [answer |-> response.answer,
     confidence_score |-> response.confidence_score,
     retrieved_chunks |-> response.retrieved_chunks,
     web_search_used |-> FALSE,
     web_searches_remaining |-> 5]

NoBody == [answer |-> ""]
NoCall == [exc |-> "not called"]

\* A rejection issued after the session has been looked up or created
RejectedAfterSessionCreated(question, session_id, status, detail) ==
    /\ last' = [op |-> "chat", session_id |-> session_id, question |-> question.id,
                status |-> status, detail |-> detail, body |-> NoBody, gcr |-> NoCall,
                llm |-> "not called", recorded_chat_history_len |-> 0]
    /\ chat_sessions' = get_or_create_session(chat_sessions, session_id)
    /\ UNCHANGED <<threads, resets, ENABLE_WEB_SEARCH, ddg_installed, max_searches, search_count, ddg,
                   exchanges, web_calls, deleted>>

\* Lines 107-115 and 150-152, and the 422 of the request schema: the request
\* is answered with an error before anything else is touched
Rejected(question, session_id, status, detail) ==
    /\ last' = [op |-> "chat", session_id |-> session_id, question |-> question.id,
                status |-> status, detail |-> detail, body |-> NoBody, gcr |-> NoCall,
                llm |-> "not called", recorded_chat_history_len |-> 0]
    /\ UNCHANGED <<threads, resets, ENABLE_WEB_SEARCH, ddg_installed, max_searches, search_count, ddg,
                   chat_sessions, exchanges, web_calls, deleted>>

\* The list passed as chat_history (line 128) is the session's own list
\* object: the append of lines 132-135 is made to that object, while the
\* slice of line 139 binds the session to a new list.  This is what the
\* object passed to get_chat_response holds once the request is handled.
chat_history_after_request(chat_history, question, response) ==
    IF response.exc = "none"
    THEN Append(chat_history, [question |-> question, answer |-> response.answer])
    ELSE chat_history

\* Lines 117-166: a well-formed question is answered
Answer(question, session_id, local) ==
    LET sessions1 == get_or_create_session(chat_sessions, session_id)
        exchanges1 == IF session_id \in DOMAIN chat_sessions
                      THEN exchanges ELSE Put(exchanges, session_id, <<>>)
        d == chat_decision(ENABLE_WEB_SEARCH, ddg_installed, session_id, TRUE, local)
    IN  \E web \in ApiWebAnswers(d) :
            LET retrieval == chat_retrieval(session_id, TRUE, d, local, web)
            IN  \E llm \in LlmAnswers(retrieval) :
                    LET response == chat_result(retrieval, llm)
                    IN  /\ IF response.exc = "none"
                           THEN /\ chat_sessions' =
                                      store_exchange(sessions1, session_id,
                                                     question.id, response.answer)
                                /\ exchanges' =
                                      Put(exchanges1, session_id,
                                          Append(exchanges1[session_id],
                                                 [question |-> question.id,
                                                  answer |-> response.answer]))
                                /\ last' = [op |-> "chat", session_id |-> session_id,
                                            question |-> question.id,
                                            status |-> 200, detail |-> "",
                                            body |-> chat_response(response),
                                            gcr |-> response, llm |-> llm,
                                            recorded_chat_history_len |->
                                                Len(chat_history_after_request(
                                                        sessions1[session_id].history,
                                                        question.id, response))]
                           ELSE /\ chat_sessions' = sessions1
                                /\ exchanges' = exchanges1
                                /\ last' = [op |-> "chat", session_id |-> session_id,
                                            question |-> question.id,
                                            status |-> 500, detail |-> response.exc,
                                            body |-> NoBody, gcr |-> response, llm |-> llm,
                                            recorded_chat_history_len |->
                                                Len(chat_history_after_request(
                                                        sessions1[session_id].history,
                                                        question.id, response))]
                        /\ deleted' = deleted \ {session_id}
                        /\ UNCHANGED <<threads, resets, ENABLE_WEB_SEARCH, ddg_installed, max_searches,
                                       search_count, ddg, web_calls>>

\* POST /chat
ChatEndpoint(question, request_session_id) ==
    LET session_id == IF request_session_id = "None" THEN "default"
                      ELSE request_session_id
    IN  /\ Idle
        /\ session_id \in DOMAIN exchanges => Len(exchanges[session_id]) < MaxLogOf(session_id)
        /\ IF ~ChatRequestAccepts(question)
           THEN Rejected(question, session_id, 422, "schema")
           ELSE IF question.len = 0 \/ question.stripped = 0
           THEN Rejected(question, session_id, 400, "Question cannot be empty")
           ELSE IF question.len > MaxQuestionLength
           THEN Rejected(question, session_id, 400,
                         "Question exceeds maximum length of 1000 characters")
           ELSE \E local \in ApiLocalOutcomes : Answer(question, session_id, local)

\* GET /sessions/{session_id}/history
GetSessionHistory(session_id) ==
    /\ Idle
    /\ last' = IF session_id \notin DOMAIN chat_sessions
               THEN [op |-> "history", session_id |-> session_id, status |-> 404,
                     detail |-> "Session not found", history |-> <<>>]
               ELSE [op |-> "history", session_id |-> session_id, status |-> 200,
                     detail |-> "", history |-> chat_sessions[session_id].history]
    /\ UNCHANGED <<threads, resets, ENABLE_WEB_SEARCH, ddg_installed, max_searches, search_count, ddg,
                   chat_sessions, exchanges, web_calls, deleted>>

\* A delete that empties the session and keeps its entry
clear_session(sessions, session_id) == Put(sessions, session_id, [history |-> <<>>])

\* Line 204: del chat_sessions[session_id]
remove_session(sessions, session_id) == Del(sessions, session_id)

\* DELETE /sessions/{session_id}
DeleteSession(session_id) ==
    /\ Idle
    /\ IF session_id \in DOMAIN chat_sessions
       THEN /\ chat_sessions' = remove_session(chat_sessions, session_id)
            /\ exchanges' = Del(exchanges, session_id)
            /\ deleted' = deleted \cup {session_id}
            /\ last' = [op |-> "delete", session_id |-> session_id, status |-> 200,
                        detail |-> "deleted successfully"]
       ELSE /\ last' = [op |-> "delete", session_id |-> session_id, status |-> 404,
                        detail |-> "Session not found"]
            /\ UNCHANGED <<chat_sessions, exchanges, deleted>>
    /\ UNCHANGED <<threads, resets, ENABLE_WEB_SEARCH, ddg_installed, max_searches, search_count, ddg,
                   web_calls>>

\* The service as deployed: ENABLE_WEB_SEARCH defaults to "true" and
\* duckduckgo-search is installed
Init ==
    /\ ENABLE_WEB_SEARCH = TRUE
    /\ ddg_installed = TRUE
    /\ max_searches = DefaultMaxSearches
    /\ search_count = NoSessions
    /\ ddg = "None"
    /\ chat_sessions = NoSessions
    /\ exchanges = NoSessions
    /\ web_calls = [s \in Sessions |-> 0]
    /\ deleted = {}
    /\ threads = NoCallers
    /\ resets = {}
    /\ last = NoOp

Next ==
    \/ \E question \in Questions, sid \in RequestSessionIds : ChatEndpoint(question, sid)
    \/ \E sid \in Sessions : GetSessionHistory(sid)
    \/ \E sid \in Sessions : DeleteSession(sid)
    \/ Return

Spec == Init /\ [][Next]_vars

----------------------------------------------------------------------------
(* Specification of a process that serves the HTTP requests and also holds
   one long-lived HybridRetriever, each used for two sessions *)

MaxIsolationLog == 2

InitIsolation ==
    /\ ENABLE_WEB_SEARCH = TRUE
    /\ ddg_installed = TRUE
    /\ max_searches = 1
    /\ search_count = NoSessions
    /\ ddg = "None"
    /\ chat_sessions = NoSessions
    /\ exchanges = NoSessions
    /\ web_calls = [s \in Sessions |-> 0]
    /\ deleted = {}
    /\ threads = NoCallers
    /\ resets = {}
    /\ last = NoOp

\* No session has logged MaxIsolationLog exchanges yet
LogBelowIsolationBound ==
    \A s \in DOMAIN exchanges : Len(exchanges[s]) < MaxIsolationLog

NextIsolation ==
    \/ \E s \in Sessions, local \in ApiLocalOutcomes : Retrieve(s, LocalRetrieverK, local)
    \/ \E s \in Sessions : ResetSession(s)
    \/ \E question \in Questions, sid \in RequestSessionIds :
          LogBelowIsolationBound /\ ChatEndpoint(question, sid)
    \/ \E sid \in Sessions : GetSessionHistory(sid)
    \/ \E sid \in Sessions : DeleteSession(sid)
    \/ Return

SpecIsolation == InitIsolation /\ [][NextIsolation]_vars

----------------------------------------------------------------------------
(* Specification of the pure functions: the scorers, the source formatters
   and the mapping of rows to documents, each applied to drawn inputs *)

MaxDocs == 3

\* Similarities in hundredths: the ends of [0, 1], the synthetic web
\* similarities 0.60, 0.55, 0.50, and a strong local match
ScoreSimilarities == {0, 50, 55, 60, 95, 100}

\* The metadata the scorers read: a similarity, or none
ScoredDocs ==
    {[similarity |-> s] : s \in ScoreSimilarities} \cup {[source |-> "doc.pdf"]}

Url50 == "https://example.com/warehouse-automation/guides/01"

\* The metadata the formatters read
CitedDocs ==
    {[source |-> "doc.pdf", page |-> 1],
     [source |-> "doc.pdf", page |-> 2],
     [source |-> "doc.pdf"],
     [source |-> "doc.pdf - Page 1"],
     [source |-> "doc.pdf", page |-> PyNone],
     [source |-> "doc.pdf", page_number |-> 2],
     [page |-> 1],
     [source |-> "web", title |-> "T", url |-> "U"],
     [source |-> "web", title |-> "T", url |-> Url50 \o "a"],
     [source |-> "web", title |-> "T", url |-> Url50 \o "b"],
     [source |-> "web", title |-> "T", url |-> ""],
     [source |-> "web"]}

\* The metadata column of a stored chunk: absent, the usual source and page,
\* or one that also holds a key the retriever sets itself
RowMetadata ==
    {[source |-> "doc.pdf", page |-> 1],
     [source |-> "doc.pdf", rank |-> 7],
     [source |-> "doc.pdf", similarity |-> 10],
     [source |-> "doc.pdf", id |-> "m"]}

StoredRows ==
    {[id |-> "d", similarity |-> sim] : sim \in {30, 92}}
    \cup {[id |-> "d", similarity |-> sim, metadata |-> md] :
            sim \in {30, 92}, md \in RowMetadata}

StoredRowSeqs ==
    {rows \in SeqsUpTo(StoredRows, MaxRows) :
        Descending([i \in DOMAIN rows |-> rows[i].similarity])}

InitFunctions ==
    /\ ENABLE_WEB_SEARCH = TRUE
    /\ ddg_installed = TRUE
    /\ max_searches = DefaultMaxSearches
    /\ search_count = NoSessions
    /\ ddg = "None"
    /\ chat_sessions = NoSessions
    /\ exchanges = NoSessions
    /\ web_calls = [s \in Sessions |-> 0]
    /\ deleted = {}
    /\ threads = NoCallers
    /\ resets = {}
    /\ last = NoOp

\* Both scorers applied to one document list
Score(docs) ==
    /\ Idle
    /\ last' = [op |-> "score", docs |-> docs,
                hybrid |-> _calculate_confidence(docs),
                chat |-> calculate_confidence_score(docs)]
    /\ UNCHANGED <<threads, resets, ENABLE_WEB_SEARCH, ddg_installed, max_searches, search_count, ddg,
                   chat_sessions, exchanges, web_calls, deleted>>

\* Both formatters applied to one document list
FormatSources(docs) ==
    /\ Idle
    /\ last' = [op |-> "format_sources", docs |-> docs,
                hybrid |-> _format_sources(docs),
                chat |-> format_sources(docs)]
    /\ UNCHANGED <<threads, resets, ENABLE_WEB_SEARCH, ddg_installed, max_searches, search_count, ddg,
                   chat_sessions, exchanges, web_calls, deleted>>

\* SupabaseRPCRetriever(k=k)._get_relevant_documents(query) on a store that
\* answers `rows`
GetRelevantDocuments(k, rows) ==
    /\ Idle
    /\ last' = [op |-> "_get_relevant_documents", k |-> k, rows |-> rows,
                result |-> _get_relevant_documents(
                               k, [embed_ok |-> TRUE, rpc_ok |-> TRUE, rows |-> rows])]
    /\ UNCHANGED <<threads, resets, ENABLE_WEB_SEARCH, ddg_installed, max_searches, search_count, ddg,
                   chat_sessions, exchanges, web_calls, deleted>>

NextFunctions ==
    \/ \E docs \in SeqsUpTo(ScoredDocs, MaxDocs) : Score(docs)
    \/ \E docs \in SeqsUpTo(CitedDocs, MaxDocs) : FormatSources(docs)
    \/ \E k \in RequestedK, rows \in StoredRowSeqs : GetRelevantDocuments(k, rows)
    \/ Return

SpecFunctions == InitFunctions /\ [][NextFunctions]_vars

----------------------------------------------------------------------------
(* Claims about one HybridRetriever instance, under SpecRetriever *)

\* The last operation is a retrieve call that returned a result
Retrieved == last.op = "retrieve" /\ last.result.exc = "none"

\* The call is eligible for a web search, the budget aside
OtherwiseEligible ==
    /\ ENABLE_WEB_SEARCH
    /\ ddg_installed
    /\ (last.local_confidence < 5000 \/ last.n_local = 0)

CountNow(session_id) == Get(search_count, session_id, 0)

\* C1: once max_searches calls have searched the web for a session (since its
\* last reset), a later call that is otherwise eligible returns
\* web_search_used = false and web_searches_remaining = 0 and leaves the
\* session's counter unchanged; the max_searches-th search itself is allowed.
C1_BudgetRefusedAtCap ==
    (last.op = "retrieve" /\ OtherwiseEligible) =>
        /\ last.web_calls_before = max_searches =>
              /\ last.result.exc = "none"
              /\ ~last.result.web_search_used
              /\ last.result.web_searches_remaining = 0
              /\ CountNow(last.session_id) = last.count_before
              /\ web_calls[last.session_id] = max_searches
        /\ last.web_calls_before = max_searches - 1 =>
              /\ last.result.web_search_used
              /\ web_calls[last.session_id] = max_searches

C1_Witness ==
    /\ last.op = "retrieve" /\ OtherwiseEligible
    /\ max_searches = 3
    /\ last.web_calls_before = max_searches
    /\ ~last.result.web_search_used

\* C3: when retrieve decides to search the web and the provider raises, the
\* call returns a result with no web documents and the session's counter is
\* not incremented.
C3_FailedWebSearchNotCharged ==
    (last.op = "retrieve" /\ last.should_search_web /\ ~last.web.ok) =>
        /\ last.result.exc = "none"
        /\ Len(last.result.documents) = last.n_local
        /\ CountNow(last.session_id) = last.count_before

\* C5: when the vector store fails after a successful embedding, the local
\* retriever raises RetrievalException and retrieve absorbs it: the local set
\* is empty, the web decision is taken as for an empty local set, and a
\* result is returned.
C5_RetrievalErrorAbsorbed ==
    (last.op = "retrieve" /\ last.local.embed_ok /\ ~last.local.rpc_ok) =>
        /\ _get_relevant_documents(LocalRetrieverK, last.local).exc = "RetrievalException"
        /\ last.result.exc = "none"
        /\ last.n_local = 0
        /\ last.should_search_web =
              (ENABLE_WEB_SEARCH /\ ddg_installed /\ last.count_before < max_searches)
        /\ last.result.web_search_used = last.should_search_web
        /\ \A i \in 1..Len(last.result.documents) :
              last.result.documents[i]["source"] = "web"

C5_Witness ==
    /\ last.op = "retrieve" /\ last.local.embed_ok /\ ~last.local.rpc_ok
    /\ last.result.exc = "none"
    /\ last.result.web_search_used
    /\ Len(last.result.documents) > 0

\* C6: in every result of retrieve, web_search_used = true implies that the
\* call incremented the session's counter by one.
C6_WebSearchUsedImpliesCharged ==
    (Retrieved /\ last.result.web_search_used) =>
        CountNow(last.session_id) = last.count_before + 1

C6_Witness ==
    /\ Retrieved /\ last.result.web_search_used
    /\ last.count_before = 1

\* The searches the session had left when the call started
RemainingBefore == Max(0, max_searches - last.count_before)

\* C8: with a non-empty local set whose confidence is below the threshold,
\* web search enabled and available and r > 0 searches remaining, the result
\* has web_search_used = true, local count + min(3, web results) documents
\* and web_searches_remaining = r - 1.
C8_LowConfidenceMerges ==
    (/\ last.op = "retrieve"
     /\ last.n_local > 0 /\ last.local_confidence < 5000
     /\ ENABLE_WEB_SEARCH /\ ddg_installed
     /\ RemainingBefore > 0) =>
        /\ last.result.exc = "none"
        /\ last.result.web_search_used
        /\ Len(last.result.documents) = last.n_local + Min(3, Len(last.web.results))
        /\ last.result.web_searches_remaining = RemainingBefore - 1

C8_Witness ==
    /\ last.op = "retrieve"
    /\ last.n_local = 2 /\ last.local_confidence < 5000
    /\ RemainingBefore = 2
    /\ last.web.ok /\ Len(last.web.results) = 4
    /\ Len(last.result.documents) = 5

----------------------------------------------------------------------------
(* Claims about get_chat_response, under SpecChat *)

ChatAnswered == last.op = "get_chat_response" /\ last.result.exc = "none"

\* C2: the web-search count of a session accumulates across requests: the
\* n-th get_chat_response call of a session that searches the web reports
\* web_searches_remaining = max(0, 5 - n), and no more than 5 web searches
\* are ever performed for a session.
C2_BudgetAccumulatesAcrossRequests ==
    /\ \A s \in Sessions : web_calls[s] <= 5
    /\ (ChatAnswered /\ last.searched_web) =>
          last.result.web_searches_remaining = Max(0, 5 - web_calls[last.session_id])

\* C4: when the embedding provider fails, get_chat_response with hybrid
\* retrieval fails with EmbeddingException instead of returning an answer.
C4_EmbeddingFailureIsFatal ==
    (/\ last.op = "get_chat_response"
     /\ last.use_hybrid_retrieval
     /\ ~last.local.embed_ok) =>
        last.result.exc = "EmbeddingException"

----------------------------------------------------------------------------
(* Claims about the HTTP layer, under Spec *)

\* C7: for every successful /chat request, the response's web_search_used
\* and web_searches_remaining equal the values get_chat_response produced
\* for that request.
C7_ResponseReportsWebSearch ==
    (last.op = "chat" /\ last.status = 200) =>
        /\ last.body.web_search_used = last.gcr.web_search_used
        /\ last.body.web_searches_remaining = last.gcr.web_searches_remaining

\* C9: every session's stored history has at most 10 entries and is exactly
\* the most recent (up to 10) exchanges answered for the session since it
\* was last created, in chronological order.
C9_HistoryIsMostRecentTen ==
    /\ DOMAIN exchanges = DOMAIN chat_sessions
    /\ \A s \in DOMAIN chat_sessions :
          LET history == chat_sessions[s].history
              n == Len(exchanges[s])
          IN  /\ Len(history) <= 10
              /\ Len(history) = Min(n, 10)
              /\ \A i \in 1..Len(history) :
                    history[i] = exchanges[s][n - Len(history) + i]

C9_Witness ==
    /\ "s1" \in DOMAIN chat_sessions
    /\ Len(exchanges["s1"]) = 11
    /\ Len(chat_sessions["s1"].history) = 10
    /\ exchanges["s1"][1].answer # exchanges["s1"][11].answer
    /\ last.op = "history" /\ last.session_id = "s1"

\* A delete request: 404 and no change for an absent id, removal otherwise
DeleteStep ==
    (Idle /\ last'.op = "delete") =>
        IF last'.session_id \in DOMAIN chat_sessions
        THEN /\ last'.status = 200
             /\ last'.session_id \notin DOMAIN chat_sessions'
        ELSE /\ last'.status = 404
             /\ chat_sessions' = chat_sessions

\* A history lookup: never writes the store, 404 for an absent id
HistoryStep ==
    (Idle /\ last'.op = "history") =>
        /\ chat_sessions' = chat_sessions
        /\ last'.session_id \notin DOMAIN chat_sessions => last'.status = 404

\* A lookup of a deleted id, before any new /chat for it, answers 404
LookupAfterDelete ==
    (last.op = "history" /\ last.session_id \in deleted) => last.status = 404

\* C10: deleting a session id that is not in the store answers 404 and
\* changes nothing; deleting an existing session removes it, so that a
\* history lookup for it before any new /chat answers 404; a history lookup
\* for an absent id answers 404 and does not create the session.
C10_DeleteThenLookupNotFound ==
    /\ []LookupAfterDelete
    /\ [][DeleteStep /\ HistoryStep]_vars

C10_Witness ==
    /\ last.op = "history"
    /\ last.session_id \in deleted
    /\ last.status = 404

----------------------------------------------------------------------------
(* Claims about an empty retrieval, under SpecChat *)

\* C13: when zero documents survive retrieval in get_chat_response (no
\* exception, empty list), the call succeeds with the canned "couldn't find
\* relevant information" answer, confidence_score 0.0, retrieved_chunks 0 and
\* empty sources, and the LLM is not invoked.
C13_NoDocumentsCannedAnswer ==
    (last.op = "get_chat_response" /\ last.retrieval_exc = "none" /\ last.n_docs = 0) =>
        /\ last.result.exc = "none"
        /\ last.result.answer = CannedAnswer
        /\ last.result.confidence_score = 0
        /\ last.result.retrieved_chunks = 0
        /\ last.result.sources = <<>>
        /\ ~last.result.llm_invoked

C13_Witness ==
    /\ last.op = "get_chat_response"
    /\ last.use_hybrid_retrieval /\ last.searched_web
    /\ last.retrieval_exc = "none" /\ last.n_docs = 0
    /\ last.result.answer = CannedAnswer

----------------------------------------------------------------------------
(* Claims about malformed questions, under Spec *)

DetailMentionsEmpty(detail) == detail = "Question cannot be empty"
DetailMentionsMaximumLength(detail) ==
    detail = "Question exceeds maximum length of 1000 characters"

\* C11: a /chat request whose question is empty is rejected with status 400
\* and a detail mentioning 'empty'; one whose question is longer than 1000
\* characters is rejected with status 400 and a detail mentioning 'maximum
\* length'.
C11_MalformedQuestionIs400 ==
    /\ (last.op = "chat" /\ last.question = "empty") =>
          (last.status = 400 /\ DetailMentionsEmpty(last.detail))
    /\ (last.op = "chat" /\ last.question = "long") =>
          (last.status = 400 /\ DetailMentionsMaximumLength(last.detail))

MalformedQuestions == {"empty", "blank", "long"}

RejectedStep ==
    (Idle /\ last'.op = "chat" /\ last'.question \in MalformedQuestions) =>
        /\ last'.status \in {400, 422}
        /\ last'.gcr = NoCall
        /\ chat_sessions' = chat_sessions

\* C12: a /chat request rejected for a malformed question (empty,
\* whitespace-only, or over 1000 characters) never invokes get_chat_response
\* and leaves the session store unchanged: no session is created and no
\* history entry is appended.
C12_RejectionTouchesNothing == [][RejectedStep]_vars

C12_Witness ==
    /\ last.op = "chat"
    /\ last.question = "blank"
    /\ last.status = 400
    /\ last.gcr = NoCall
    /\ last.session_id \notin DOMAIN chat_sessions

----------------------------------------------------------------------------
(* Claims about the scorers, under SpecFunctions *)

HasSimilarity(doc) == "similarity" \in DOMAIN doc

\* The list is one the retrievers can produce: every document carries a
\* similarity within [0, 1]
FromRetrievers(docs) ==
    \A i \in 1..Len(docs) :
        HasSimilarity(docs[i]) /\ docs[i].similarity >= 0 /\ docs[i].similarity <= 100

\* C14: score([]) = 0.0, and for every non-empty list the retrievers can
\* produce both scorers return a value v with 0.0 <= v <= 1.0 (ten-thousandths
\* in the model).
C14_ConfidenceWithinUnitInterval ==
    (last.op = "score" /\ FromRetrievers(last.docs)) =>
        /\ Len(last.docs) = 0 => (last.hybrid = 0 /\ last.chat = 0)
        /\ last.hybrid >= 0 /\ last.hybrid <= 10000
        /\ last.chat >= 0 /\ last.chat <= 10000

C14_Witness ==
    /\ last.op = "score"
    /\ Len(last.docs) = MaxDocs
    /\ \A i \in 1..Len(last.docs) : HasSimilarity(last.docs[i]) /\ last.docs[i].similarity = 100
    /\ last.hybrid = 10000 /\ last.chat = 10000

Swap(docs, i, j) ==
    [n \in 1..Len(docs) |-> IF n = i THEN docs[j] ELSE IF n = j THEN docs[i] ELSE docs[n]]

HighFirst == <<[similarity |-> 95], [similarity |-> 50]>>
LowFirst == <<[similarity |-> 50], [similarity |-> 95]>>

\* C15: for any document list and positions i < j, the arrangement with the
\* larger of the two similarities at position i scores at least as high as
\* the arrangement with the two swapped; score([0.95, 0.50]) is strictly
\* greater than score([0.50, 0.95]).
C15_FrontWeightingMonotone ==
    last.op = "score" =>
        /\ \A i, j \in 1..Len(last.docs) :
              (/\ i < j
               /\ HasSimilarity(last.docs[i]) /\ HasSimilarity(last.docs[j])
               /\ last.docs[i].similarity >= last.docs[j].similarity) =>
                  /\ last.hybrid >= _calculate_confidence(Swap(last.docs, i, j))
                  /\ last.chat >= calculate_confidence_score(Swap(last.docs, i, j))
        /\ last.docs = HighFirst =>
              /\ last.hybrid > _calculate_confidence(LowFirst)
              /\ last.chat > calculate_confidence_score(LowFirst)

C15_Witness ==
    /\ last.op = "score"
    /\ last.docs = HighFirst
    /\ last.chat = 8000 /\ last.hybrid = 8000
    /\ calculate_confidence_score(LowFirst) = 6500

----------------------------------------------------------------------------
(* Claims about the source formatters, under SpecFunctions *)

Formatted == last.op = "format_sources"

\* The citations of the documents, one per document, before deduplication
ChatCitations == [i \in 1..Len(last.docs) |-> source_str(last.docs[i])]
HybridCitations == [i \in 1..Len(last.docs) |-> _source_str(last.docs[i])]

FirstOccurrence(citations, c) ==
    CHOOSE i \in 1..Len(citations) :
        citations[i] = c /\ \A j \in 1..(i - 1) : citations[j] # c

\* sources lists every citation exactly once, in first-occurrence order
DistinctInFirstOccurrenceOrder(sources, citations) ==
    /\ \A a, b \in 1..Len(sources) : a # b => sources[a] # sources[b]
    /\ \A i \in 1..Len(citations) : \E a \in 1..Len(sources) : sources[a] = citations[i]
    /\ \A a \in 1..Len(sources) : \E i \in 1..Len(citations) : sources[a] = citations[i]
    /\ \A a, b \in 1..Len(sources) :
          a < b => FirstOccurrence(citations, sources[a]) < FirstOccurrence(citations, sources[b])
    /\ Len(sources) = Cardinality({citations[i] : i \in 1..Len(citations)})

PagesOneOneTwo ==
    <<[source |-> "doc.pdf", page |-> 1],
      [source |-> "doc.pdf", page |-> 1],
      [source |-> "doc.pdf", page |-> 2]>>

\* C16: each source formatter returns a list with no duplicate strings that
\* contains the rendered citation of every input document exactly once,
\* ordered by first occurrence in the input; its length is the number of
\* distinct rendered citations (2 for three documents with pages 1, 1, 2).
C16_SourcesDistinctInOrder ==
    Formatted =>
        /\ DistinctInFirstOccurrenceOrder(last.chat, ChatCitations)
        /\ DistinctInFirstOccurrenceOrder(last.hybrid, HybridCitations)
        /\ last.docs = PagesOneOneTwo => (Len(last.chat) = 2 /\ Len(last.hybrid) = 2)

C16_Witness ==
    /\ Formatted
    /\ last.docs = PagesOneOneTwo
    /\ last.chat = <<"doc.pdf - Page 1", "doc.pdf - Page 2">>
    /\ Len(last.hybrid) = 2

IsLocal(doc) == Get(doc, "source", "Unknown") # "web"

OneLocalDocument == Formatted /\ Len(last.docs) = 1 /\ IsLocal(last.docs[1])

\* "{source} - Page {page}"
WithPage(source, page) == source \o " - Page " \o ToString(page)

----------------------------------------------------------------------------
(* Claims about the local retriever's documents, under SpecFunctions *)

\* C18: a document produced by the local retriever has rank equal to its
\* 1-based position in the returned list, similarity equal to its row's
\* similarity and id equal to its row's id, whatever the row-level metadata
\* map contains.
C18_RowMetadataDoesNotOverride ==
    (last.op = "_get_relevant_documents" /\ last.result.exc = "none") =>
        \A i \in 1..Len(last.result.docs) :
            /\ last.result.docs[i].rank = i
            /\ last.result.docs[i].similarity = last.rows[i].similarity
            /\ last.result.docs[i].id = last.rows[i].id

----------------------------------------------------------------------------
(* Claims about the merge and the web decision, under SpecRetriever *)

IsWeb(doc) == Get(doc, "source", "None") = "web"

\* The web documents the provider's answer turns into
WebAnswered == IF last.web.ok THEN Len(last.web.results) ELSE 0

\* C19: in every result of retrieve, documents is the local documents in
\* their original order followed by at most the first 3 web documents in
\* their original order; no web document precedes a local document,
\* whatever the similarities.
C19_LocalThenWebInOrder ==
    Retrieved =>
        LET documents == last.result.documents
            n_web == Len(documents) - last.n_local
        IN  /\ n_web = Min(3, WebAnswered)
            /\ \A i \in 1..last.n_local :
                  /\ ~IsWeb(documents[i])
                  /\ documents[i].rank = i
                  /\ documents[i].similarity = last.local.rows[i].similarity
            /\ \A i \in 1..n_web :
                  /\ IsWeb(documents[last.n_local + i])
                  /\ documents[last.n_local + i].rank = i
                  /\ documents[last.n_local + i].similarity = 60 - 5 * (i - 1)

C19_Witness ==
    /\ Retrieved
    /\ last.n_local = 2
    /\ WebAnswered = 4
    /\ Len(last.result.documents) = 5
    /\ IsWeb(last.result.documents[3])
    /\ last.result.documents[3].similarity > last.result.documents[1].similarity

\* The call searched the web: the provider was called once more
SearchedWeb == web_calls[last.session_id] = last.web_calls_before + 1

\* C20: retrieve performs a web search if and only if web search is enabled
\* and the provider is available and search_count[session] < max_searches and
\* (local confidence < threshold or the local set is empty); a local
\* confidence exactly at the threshold with a non-empty local set never
\* triggers a web search.
C20_WebSearchDecision ==
    last.op = "retrieve" =>
        /\ SearchedWeb <=>
              (/\ ENABLE_WEB_SEARCH
               /\ ddg_installed
               /\ last.count_before < max_searches
               /\ (last.local_confidence < 5000 \/ last.n_local = 0))
        /\ ~SearchedWeb => web_calls[last.session_id] = last.web_calls_before
        /\ (last.n_local > 0 /\ last.local_confidence = 5000) =>
              (~SearchedWeb /\ ~last.result.web_search_used)

C20_Witness ==
    /\ last.op = "retrieve"
    /\ ENABLE_WEB_SEARCH /\ ddg_installed
    /\ last.count_before < max_searches
    /\ last.n_local > 0 /\ last.local_confidence = 5000
    /\ ~SearchedWeb
    /\ ~last.result.web_search_used

----------------------------------------------------------------------------
(* Claims about the requested number of documents, under SpecRetriever *)

\* C21: for every k > 0, retrieve(query, session_id, k) asks the local
\* retriever for exactly k documents, so the number of local documents in
\* the result is at most k.
C21_LocalDocumentsAtMostK ==
    (Retrieved /\ last.k > 0) => last.n_local <= last.k

----------------------------------------------------------------------------
(* Claims about concurrent calls, under SpecConcurrent *)

\* C22: with no locking, two retrieve calls for the same session running
\* concurrently on one HybridRetriever can both pass the budget check before
\* either increments: from search_count[session] = max_searches - 1 both
\* search the web and the counter ends at max_searches + 1; with two
\* concurrent calls the cap is overshot by at most one.
C22_OvershootAtMostOne ==
    \A s \in Sessions : Get(search_count, s, 0) <= max_searches + 1

C22_Witness ==
    /\ \A t \in Threads :
          /\ threads[t].pc = "returned"
          /\ threads[t].session_id = "s1"
          /\ threads[t].count_checked = max_searches - 1
          /\ threads[t].web_search_used
    /\ Get(search_count, "s1", 0) = max_searches + 1

\* C23: in every result of retrieve, web_searches_remaining =
\* max(0, max_searches - search_count[session_id]) evaluated after this
\* call's charge; it is never negative, also when the counter has overshot
\* the cap, and the first result after reset_session(session_id) for a call
\* that does not search the web reports the full max_searches.
C23_RemainingIsClampedDifference ==
    \A t \in Threads :
        threads[t].pc = "returned" =>
            /\ threads[t].web_searches_remaining =
                  Max(0, max_searches - threads[t].count_at_return)
            /\ threads[t].web_searches_remaining >= 0
            /\ (threads[t].after_reset /\ ~threads[t].web_search_used) =>
                  threads[t].web_searches_remaining = max_searches

C23_Witness ==
    /\ threads["t1"].pc = "returned"
    /\ threads["t1"].count_at_return = max_searches + 1
    /\ threads["t1"].web_searches_remaining = 0
    /\ threads["t2"].pc = "returned"
    /\ threads["t2"].after_reset /\ ~threads["t2"].web_search_used
    /\ threads["t2"].web_searches_remaining = max_searches

----------------------------------------------------------------------------
(* Claims about the scorers' default similarity, under SpecFunctions *)

\* C24: for every document list, including lists with documents lacking a
\* similarity, calculate_confidence_score and
\* HybridRetriever._calculate_confidence return the same value: the
\* 1/(i+1)-weighted average with 0.5 substituted for absent similarities,
\* rounded to 4 decimals.
C24_ScorersAgreeWithDefaultHalf ==
    last.op = "score" =>
        /\ last.chat = last.hybrid
        /\ last.chat = WeightedConfidence(last.docs, 50)

----------------------------------------------------------------------------
(* Claims about the requests that reach get_chat_response, under Spec *)

\* C25: when the answer-composer step fails for a request that retrieved at
\* least one document, get_chat_response raises LLMException (it never
\* returns a partial answer), and the /chat endpoint answers 500 with a
\* detail naming LLMException.
C25_ComposerFailureIs500 ==
    (last.op = "chat" /\ last.llm = "fail") =>
        /\ last.gcr.llm_invoked
        /\ last.gcr.exc = "LLMException"
        /\ last.gcr.answer = ""
        /\ last.status = 500
        /\ last.detail = "LLMException"
        /\ last.body = NoBody

C25_Witness ==
    /\ last.op = "chat" /\ last.llm = "fail"
    /\ last.status = 500
    /\ last.session_id = "s1"
    /\ Len(exchanges["s1"]) = 2

\* The number of successful requests of the session, the last one included
Successful(session_id) == Len(exchanges[session_id])

\* C26: for the n-th successful /chat request on a session, the chat_history
\* argument recorded for the get_chat_response call contains exactly the
\* session's previous exchanges (n-1 of them for n <= 11, otherwise 10) and
\* not the current question/answer; the history recorded for the second
\* request of a session has exactly 1 entry.
C26_RecordedHistoryExcludesCurrent ==
    (last.op = "chat" /\ last.status = 200) =>
        LET n == Successful(last.session_id)
        IN  /\ last.recorded_chat_history_len = IF n <= 11 THEN n - 1 ELSE 10
            /\ n = 2 => last.recorded_chat_history_len = 1

FailedStep ==
    (Idle /\ last'.op = "chat" /\ last'.status = 500) => chat_sessions' = chat_sessions

\* C28: a /chat request that passes validation but fails inside
\* get_chat_response leaves the session store exactly as it was before the
\* request: no history entry is appended and no new session entry exists
\* afterwards.
C28_FailedRequestLeavesStore == [][FailedStep]_vars

----------------------------------------------------------------------------
(* Claims about the web fields of get_chat_response, under SpecChat *)

\* C29: in every result returned by get_chat_response with hybrid retrieval,
\* web_search_used is true exactly when this call charged a web search to the
\* session (exactly when web_searches_remaining is lower than it would have
\* been without this call), also when the retrieval ended with zero documents.
C29_WebSearchUsedIffCharged ==
    (/\ last.op = "get_chat_response"
     /\ last.use_hybrid_retrieval
     /\ last.result.exc = "none") =>
        /\ last.result.web_search_used = last.searched_web
        /\ last.result.web_search_used =
              (last.result.web_searches_remaining < DefaultMaxSearches)

----------------------------------------------------------------------------
(* Claims about the final confidence, under SpecRetriever *)

\* C30: in every retrieve call the final confidence_score, computed over the
\* merged list, is greater than or equal to the local confidence computed
\* before the web decision: appending web documents (similarities 0.60, 0.55,
\* 0.50 by position) to a local set whose confidence is below the threshold
\* never lowers the score, and with no web documents the two are equal.
C30_FinalConfidenceAtLeastLocal ==
    Retrieved =>
        /\ last.result.confidence_score >= last.local_confidence
        /\ Len(last.result.documents) = last.n_local =>
              last.result.confidence_score = last.local_confidence

C30_Witness ==
    /\ Retrieved
    /\ last.n_local = 2
    /\ last.local_confidence > 0 /\ last.local_confidence < 5000
    /\ Len(last.result.documents) = 5
    /\ last.result.confidence_score > last.local_confidence

----------------------------------------------------------------------------
(* Claims about session isolation, under SpecIsolation *)

\* The entry of session B in a dict is what it was
SameEntry(before, after, B) ==
    /\ (B \in DOMAIN after) = (B \in DOMAIN before)
    /\ B \in DOMAIN before => after[B] = before[B]

IsolationStep ==
    /\ (Idle /\ last'.op \in {"retrieve", "reset_session"}) =>
          \A B \in Sessions \ {last'.session_id} :
              SameEntry(search_count, search_count', B)
    /\ (Idle /\ last'.op \in {"chat", "history", "delete"}) =>
          \A B \in Sessions \ {last'.session_id} :
              SameEntry(chat_sessions, chat_sessions', B)

\* C27: a retrieve call for session A never changes search_count of any
\* other session B, and a /chat, history or delete request for session A
\* never changes the stored history or the existence of any other session B.
C27_SessionIsolation == [][IsolationStep]_vars

C27_Witness ==
    /\ last.op = "delete" /\ last.status = 200 /\ last.session_id = "s1"
    /\ "default" \in DOMAIN chat_sessions
    /\ Len(chat_sessions["default"].history) = 1
    /\ Get(search_count, "default", 0) = 1
    /\ Get(search_count, "s1", 0) = 1

====
